---- MODULE Spec2Model ----
(***************************************************************************)
(* Model of src/utils.py: the spreadsheet cache (generate_csv, load_sheet), *)
(* the hierarchy/values merge, and the budget validators                    *)
(* (top_level_budget, summed_state_budget, budget_gap).                     *)
(*                                                                          *)
(* A DataFrame is a sequence of rows.  The budget functions read the        *)
(* columns year, extra, organization_name, parent_name, budget_type_name    *)
(* and value, so a budget row is a record with those fields.  Numeric       *)
(* values are fixed-point integers: one unit is 10^-5, so that np.round to  *)
(* 3 and to 4 decimals both act on the values of the model.                 *)
(***************************************************************************)
EXTENDS Integers, Sequences, FiniteSets, TLC

VARIABLES
    df,             \* the DataFrame handed to a budget function
    ret,            \* the last call of a budget function and what it returned
    hierarchy_df,   \* merge: the hierarchy table
    values_df,      \* merge: the values table
    margs,          \* merge: the keyword arguments of the call
    merged,         \* merge: the outcome of the call
    saisie,         \* data/saisie.xlsx: sheet name -> rows
    generated,      \* data/generated/<sheet>.csv: sheet name -> text, or Absent
    pc,             \* where load_sheet / generate_csv stands
    frame,          \* the running load_sheet call: its argument and bookkeeping
    printed,        \* what generate_csv printed during the running call
    last            \* the previous completed load_sheet call

vars == <<df, ret, hierarchy_df, values_df, margs, merged,
          saisie, generated, pc, frame, printed, last>>

budgetVars == <<df, ret>>
mergeVars == <<hierarchy_df, values_df, margs, merged>>
cacheVars == <<saisie, generated, pc, frame, printed, last>>

(***************************************************************************)
(* Bounds of the model.                                                     *)
(***************************************************************************)
MaxRows == 3

(***************************************************************************)
(* Literals of the source (transliterated; the source has them in Arabic).  *)
(***************************************************************************)
StateOrg == "al-dawla"                       \* the state-aggregate organization
MinistryBudget == "mizaniyat al-wizara"      \* the ministry-budget label
Imprev == "nafaqat tari'a wa ghayr muwazza'a" \* unallocated / emergency expenses
PublicDebt == "al-dayn al-umumi"             \* the public-debt label
Null == "NaN"                                \* a missing cell

NoCall == [fn |-> "none"]

(***************************************************************************)
(* Generic helpers.                                                         *)
(***************************************************************************)
Range(s) == {s[i] : i \in DOMAIN s}

RECURSIVE SumSeq(_)
SumSeq(s) == IF s = <<>> THEN 0 ELSE Head(s) + SumSeq(Tail(s))

\* Series.agg(sum) over the value column: the empty selection sums to 0
SumValues(rows) == SumSeq([i \in DOMAIN rows |-> rows[i].value])

\* np.round(x, d) on fixed-point x, m = 10^(5-d) units: to the nearest multiple
\* of m, a tie going to the even multiple
RoundTo(x, m) ==
    LET q == x \div m
        r == x % m
    IN  IF 2 * r < m THEN q * m
        ELSE IF 2 * r > m THEN (q + 1) * m
        ELSE IF q % 2 = 0 THEN q * m ELSE (q + 1) * m

(***************************************************************************)
(* top_level_budget                                                         *)
(***************************************************************************)
year_df(d, year) == SelectSeq(d, LAMBDA r : r.year = year)

unique_organizations(d, year) ==
    {r.organization_name : r \in Range(year_df(d, year))}

organization_w_top_level_budget_AllYears(d, year, top_level_budget_string) ==
    {r.organization_name :
        r \in Range(SelectSeq(d,
                LAMBDA r : r.budget_type_name = top_level_budget_string))}

organization_w_top_level_budget(d, year, top_level_budget_string) ==
    {r.organization_name :
        r \in Range(SelectSeq(year_df(d, year),
                LAMBDA r : r.budget_type_name = top_level_budget_string))}

\* the branch of the if at line 96
top_level_branch(d, year, top_level_budget_string) ==
    IF Cardinality(unique_organizations(d, year))
         >= Cardinality(organization_w_top_level_budget(d, year, top_level_budget_string))
    THEN "difference" ELSE "reverse"

top_level_budget_Flipped(d, year, top_level_budget_string) ==
    LET all == unique_organizations(d, year)
        top == organization_w_top_level_budget(d, year, top_level_budget_string)
    IN  IF Cardinality(all) <= Cardinality(top) THEN all \ top ELSE top \ all

top_level_budget(d, year, top_level_budget_string) ==
    LET all == unique_organizations(d, year)
        top == organization_w_top_level_budget(d, year, top_level_budget_string)
    IN  IF top_level_branch(d, year, top_level_budget_string) = "difference"
        THEN all \ top ELSE top \ all

(***************************************************************************)
(* Specification of top_level_budget: a table is built row by row, then the *)
(* function is called on it.                                                *)
(***************************************************************************)
TopYears == {2019, 2020}
TopOrgs == {"A", "B", "C"}
TopTypes == {MinistryBudget, "tasarruf"}

TopRowDomain ==
    [year : TopYears, extra : {"x"}, organization_name : TopOrgs,
     parent_name : {Null}, budget_type_name : TopTypes, value : {0}]

IdleMerge ==
    /\ hierarchy_df = <<>>
    /\ values_df = <<>>
    /\ margs = NoCall
    /\ merged = NoCall

IdleCache ==
    /\ saisie = <<>>
    /\ generated = <<>>
    /\ pc = "idle"
    /\ frame = NoCall
    /\ printed = <<>>
    /\ last = NoCall

IdleBudget ==
    /\ df = <<>>
    /\ ret = NoCall

InitTop == IdleBudget /\ IdleMerge /\ IdleCache

TopAddRow ==
    /\ ret = NoCall
    /\ Len(df) < MaxRows
    /\ \E r \in TopRowDomain : df' = Append(df, r)
    /\ UNCHANGED <<ret, mergeVars, cacheVars>>

TopLevelBudget ==
    /\ ret = NoCall
    /\ \E year \in TopYears, label \in TopTypes :
         ret' = [fn |-> "top_level_budget", year |-> year, label |-> label,
                 branch |-> top_level_branch(df, year, label),
                 all |-> unique_organizations(df, year),
                 top |-> organization_w_top_level_budget(df, year, label),
                 value |-> top_level_budget(df, year, label)]
    /\ UNCHANGED <<df, mergeVars, cacheVars>>

NextTop == TopAddRow \/ TopLevelBudget

SpecTop == InitTop /\ [][NextTop]_vars

\* the rows of df of a year, and the organizations among rows that satisfy a test
RowsOf(year) == {i \in DOMAIN df : df[i].year = year}

\* C3: top_level_budget returns the larger set minus the smaller one, of the
\* organizations of the year and those of them carrying the label; with {A,B,C}
\* and only A,B carrying the label it returns {C}; the result is not empty
\* when the two sets differ.
C3_LargerMinusSmaller ==
    ret.fn = "top_level_budget" =>
        LET all == {df[i].organization_name : i \in RowsOf(ret.year)}
            top == {df[i].organization_name :
                       i \in {j \in RowsOf(ret.year) :
                                df[j].budget_type_name = ret.label}}
        IN  /\ Cardinality(all) >= Cardinality(top) => ret.value = all \ top
            /\ Cardinality(all) < Cardinality(top) => ret.value = top \ all
            /\ all # top => ret.value # {}
            /\ (all = {"A", "B", "C"} /\ top = {"A", "B"}) => ret.value = {"C"}

C3_Witness ==
    /\ ret.fn = "top_level_budget"
    /\ ret.all = {"A", "B", "C"}
    /\ ret.top = {"A", "B"}
    /\ ret.value = {"C"}

\* C10: the organizations carrying the label in the year are among the
\* organizations of the year, the reverse branch is never taken, and the result
\* is the organizations of the year that have no row with the label.
C10_SubsetNoReverse ==
    ret.fn = "top_level_budget" =>
        /\ ret.top \subseteq ret.all
        /\ ret.branch # "reverse"
        /\ ret.value =
             {o \in {df[i].organization_name : i \in RowsOf(ret.year)} :
                ~ \E i \in RowsOf(ret.year) :
                     /\ df[i].organization_name = o
                     /\ df[i].budget_type_name = ret.label}

C10_Witness ==
    /\ ret.fn = "top_level_budget"
    /\ ret.top # {}
    /\ ret.top # ret.all
    /\ \E i \in DOMAIN df : df[i].year # ret.year /\ df[i].budget_type_name = ret.label
    /\ ret.value = ret.all \ ret.top

(***************************************************************************)
(* summed_state_budget                                                      *)
(***************************************************************************)
sum_ministries(d, year) ==
    SumValues(SelectSeq(d, LAMBDA r :
        /\ r.organization_name # StateOrg
        /\ r.budget_type_name = MinistryBudget
        /\ r.year = year))

sum_imprev(d, year) ==
    SumValues(SelectSeq(d, LAMBDA r :
        /\ r.organization_name = StateOrg
        /\ r.budget_type_name \in {Imprev}
        /\ r.year = year))

sum_debt(d, year) ==
    SumValues(SelectSeq(d, LAMBDA r :
        /\ r.organization_name = StateOrg
        /\ r.budget_type_name \in {PublicDebt}
        /\ r.year = year))

\* np.round(x, 4): to a multiple of 10 units
Round4(x) == RoundTo(x, 10)

summed_state_budget_Swapped(d, year) ==
    [sum_ministries |-> Round4(sum_ministries(d, year)),
     public_debt |-> Round4(sum_imprev(d, year)),
     imprev |-> Round4(sum_debt(d, year))]

summed_state_budget(d, year) ==
    [sum_ministries |-> Round4(sum_ministries(d, year)),
     public_debt |-> Round4(sum_debt(d, year)),
     imprev |-> Round4(sum_imprev(d, year))]

(***************************************************************************)
(* Specification of summed_state_budget.  The rows of 2020 carry the values *)
(* 10.0 and 20.0, those of 2019 carry 0.00007 and 0.00013, which np.round   *)
(* to 4 decimals changes.                                                   *)
(***************************************************************************)
SumYears == {2019, 2020}
SumOrgs == {StateOrg, "A"}
SumTypes == {MinistryBudget, Imprev, PublicDebt}

SumRowDomain ==
    [year : {2020}, extra : {"x"}, organization_name : SumOrgs,
     parent_name : {Null}, budget_type_name : SumTypes,
     value : {1000000, 2000000}]
    \cup
    [year : {2019}, extra : {"x"}, organization_name : SumOrgs,
     parent_name : {Null}, budget_type_name : SumTypes,
     value : {7, 13}]

InitSum == IdleBudget /\ IdleMerge /\ IdleCache

SumAddRow ==
    /\ ret = NoCall
    /\ Len(df) < MaxRows
    /\ \E r \in SumRowDomain : df' = Append(df, r)
    /\ UNCHANGED <<ret, mergeVars, cacheVars>>

SummedStateBudget ==
    /\ ret = NoCall
    /\ \E year \in SumYears :
         ret' = [fn |-> "summed_state_budget", year |-> year,
                 value |-> summed_state_budget(df, year)]
    /\ UNCHANGED <<df, mergeVars, cacheVars>>

NextSum == SumAddRow \/ SummedStateBudget

SpecSum == InitSum /\ [][NextSum]_vars

RECURSIVE SumOver(_)
\* the sum of df's values over a set of row numbers
SumOver(S) ==
    IF S = {} THEN 0
    ELSE LET i == CHOOSE j \in S : TRUE IN df[i].value + SumOver(S \ {i})

Abs(x) == IF x < 0 THEN -x ELSE x

\* v is s rounded to a multiple of m units
IsRounded(v, s, m) == v % m = 0 /\ 2 * Abs(v - s) <= m

Ministries(year) ==
    {i \in RowsOf(year) : /\ df[i].organization_name # StateOrg
                          /\ df[i].budget_type_name = MinistryBudget}

StateRows(year, label) ==
    {i \in RowsOf(year) : /\ df[i].organization_name = StateOrg
                          /\ df[i].budget_type_name = label}

C8_WitnessRounded ==
    /\ ret.fn = "summed_state_budget"
    /\ ret.value.sum_ministries = 10
    /\ SumOver(Ministries(ret.year)) = 14

(***************************************************************************)
(* budget_gap                                                               *)
(*                                                                          *)
(* The frames budget_gap builds are modelled as sets of rows: groupby sorts *)
(* its groups by key and merge keeps the order of the left keys, and no     *)
(* step of the function reads the order of rows.  A merged row carries the  *)
(* number of the typed row it was joined from (typed_row), which keeps      *)
(* apart the rows two equal typed rows give.  The column budget_type_name   *)
(* of a merged row is that of the typed row.                                *)
(***************************************************************************)
GroupKey(r) == <<r.year, r.extra, r.organization_name, r.parent_name>>

GroupKey_NoYear(r) == <<r.extra, r.organization_name, r.parent_name>>

\* groupby drops the rows that have a missing value in a key column (year is
\* a number in every row of the model)
HasNullKey(r) ==
    \/ r.extra = Null
    \/ r.organization_name = Null
    \/ r.parent_name = Null

gen_agg_NoYear(BUDGET) ==
    {[year |-> k[1], extra |-> k[2], organization_name |-> k[3],
      parent_name |-> k[4],
      value |-> SumValues(SelectSeq(BUDGET,
                    LAMBDA r : GroupKey_NoYear(r) = <<k[2], k[3], k[4]>>))] :
        k \in {GroupKey(BUDGET[i]) :
                 i \in {j \in DOMAIN BUDGET : ~HasNullKey(BUDGET[j])}}}

\* lines 163-167: one row per (year, extra, organization_name, parent_name)
\* group, value being the sum of the group's values
gen_agg(BUDGET) ==
    {[year |-> k[1], extra |-> k[2], organization_name |-> k[3],
      parent_name |-> k[4],
      value |-> SumValues(SelectSeq(BUDGET, LAMBDA r : GroupKey(r) = k))] :
        k \in {GroupKey(BUDGET[i]) :
                 i \in {j \in DOMAIN BUDGET : ~HasNullKey(BUDGET[j])}}}

\* line 168: the rows whose budget_type_name occurs in the parent_name column
gen_typed(BUDGET) ==
    {i \in DOMAIN BUDGET :
        BUDGET[i].budget_type_name \in {BUDGET[j].parent_name : j \in DOMAIN BUDGET}}

MergedRow(g, t, i) ==
    [year |-> g.year, extra |-> g.extra,
     organization_name |-> g.organization_name,
     parent_name_agg |-> g.parent_name,
     parent_name_typed |-> t.parent_name,
     budget_type_name |-> t.budget_type_name,
     value_agg |-> g.value, value_typed |-> t.value, typed_row |-> i]

gap_merge_NoYear(agg, BUDGET, typed) ==
    {MergedRow(p[1], BUDGET[p[2]], p[2]) :
        p \in {q \in agg \X typed :
                 /\ q[1].parent_name = BUDGET[q[2]].budget_type_name
                 /\ q[1].organization_name = BUDGET[q[2]].organization_name
                 /\ q[1].extra = BUDGET[q[2]].extra}}

\* lines 170-176: the inner join of gen_agg (left) and gen_typed (right)
gap_merge(agg, BUDGET, typed) ==
    {MergedRow(p[1], BUDGET[p[2]], p[2]) :
        p \in {q \in agg \X typed :
                 /\ q[1].parent_name = BUDGET[q[2]].budget_type_name
                 /\ q[1].organization_name = BUDGET[q[2]].organization_name
                 /\ q[1].year = BUDGET[q[2]].year
                 /\ q[1].extra = BUDGET[q[2]].extra}}

\* np.round(x, 3): to a multiple of 100 units
Round3(x) == RoundTo(x, 100)

\* n / d rounded to an integer, a tie going to the even one (d # 0)
RoundDiv(n, d) ==
    LET nn == IF d < 0 THEN -n ELSE n
        dd == IF d < 0 THEN -d ELSE d
        q == nn \div dd
        r == nn % dd
    IN  IF 2 * r < dd THEN q
        ELSE IF 2 * r > dd THEN q + 1
        ELSE IF q % 2 = 0 THEN q ELSE q + 1

Max2(a, b) == IF a >= b THEN a ELSE b
Min2(a, b) == IF a <= b THEN a ELSE b

\* lines 182-186: round(max / min, 3), in thousandths; float division by zero
\* gives inf, and 0 / 0 gives NaN
double(value_agg, value_typed) ==
    LET hi == Max2(value_agg, value_typed)
        lo == Min2(value_agg, value_typed)
    IN  IF lo # 0 THEN [kind |-> "num", milli |-> RoundDiv(1000 * hi, lo)]
        ELSE IF hi = 0 THEN [kind |-> "nan"]
        ELSE [kind |-> "inf"]

\* lines 179-188: the columns gap and double
with_gap(M) ==
    {[year |-> r.year, extra |-> r.extra,
      organization_name |-> r.organization_name,
      parent_name_agg |-> r.parent_name_agg,
      parent_name_typed |-> r.parent_name_typed,
      budget_type_name |-> r.budget_type_name,
      value_agg |-> r.value_agg, value_typed |-> r.value_typed,
      typed_row |-> r.typed_row,
      gap |-> Round3(r.value_typed - r.value_agg),
      double |-> double(r.value_agg, r.value_typed)] : r \in M}

exclude_root_Kept(M) == M

\* line 189
exclude_root(M) == {r \in M : r.organization_name # StateOrg}

\* line 190: drop(columns=["parent_name_agg"])
drop_parent_name_agg(M) ==
    {[year |-> r.year, extra |-> r.extra,
      organization_name |-> r.organization_name,
      parent_name_typed |-> r.parent_name_typed,
      budget_type_name |-> r.budget_type_name,
      value_agg |-> r.value_agg, value_typed |-> r.value_typed,
      typed_row |-> r.typed_row,
      gap |-> r.gap, double |-> r.double] : r \in M}

\* the frame before line 189
gap_unfiltered(BUDGET) ==
    with_gap(gap_merge(gen_agg(BUDGET), BUDGET, gen_typed(BUDGET)))

budget_gap(BUDGET) ==
    drop_parent_name_agg(exclude_root(gap_unfiltered(BUDGET)))

(***************************************************************************)
(* Specification of budget_gap.  budget_gap reads its table through         *)
(* groupby, isin and merge, which do not depend on the order of the rows,   *)
(* so the tables are enumerated up to row order: rows are appended in the   *)
(* order of GapRank.  Budget type "P" has no parent and is the parent of    *)
(* budget type "c".  Values: 0, 1.0, 2.0 and 1.0003.                        *)
(***************************************************************************)
GapOrgs == <<StateOrg, "A">>
GapSlices == <<[year |-> 2020, extra |-> "x"], [year |-> 2019, extra |-> "x"],
               [year |-> 2020, extra |-> "y"]>>
GapTypes == <<[budget_type_name |-> "P", parent_name |-> Null],
              [budget_type_name |-> "c", parent_name |-> "P"]>>
GapValues == <<0, 100000, 200000, 100030>>

GapRow(o, s, t, v) ==
    [year |-> GapSlices[s].year, extra |-> GapSlices[s].extra,
     organization_name |-> GapOrgs[o],
     parent_name |-> GapTypes[t].parent_name,
     budget_type_name |-> GapTypes[t].budget_type_name,
     value |-> GapValues[v]]

IndexOf(seq, x) == CHOOSE i \in DOMAIN seq : seq[i] = x

GapRank(r) ==
    LET o == IndexOf(GapOrgs, r.organization_name)
        s == IndexOf(GapSlices, [year |-> r.year, extra |-> r.extra])
        t == IndexOf(GapTypes, [budget_type_name |-> r.budget_type_name,
                                parent_name |-> r.parent_name])
        v == IndexOf(GapValues, r.value)
    IN  ((o * Len(GapSlices) + s) * Len(GapTypes) + t) * Len(GapValues) + v

GapRowDomain ==
    {GapRow(o, s, t, v) : o \in DOMAIN GapOrgs, s \in DOMAIN GapSlices,
                          t \in DOMAIN GapTypes, v \in DOMAIN GapValues}

InitGap == IdleBudget /\ IdleMerge /\ IdleCache

GapAddRow ==
    /\ ret = NoCall
    /\ Len(df) < MaxRows
    /\ \E r \in GapRowDomain :
         /\ df # <<>> => GapRank(r) >= GapRank(df[Len(df)])
         /\ df' = Append(df, r)
    /\ UNCHANGED <<ret, mergeVars, cacheVars>>

BudgetGap ==
    /\ ret = NoCall
    /\ ret' = [fn |-> "budget_gap",
               unfiltered |-> gap_unfiltered(df),
               filtered |-> exclude_root(gap_unfiltered(df)),
               value |-> budget_gap(df)]
    /\ UNCHANGED <<df, mergeVars, cacheVars>>

NextGap == GapAddRow \/ BudgetGap

SpecGap == InitGap /\ [][NextGap]_vars

\* the rows of df of a (year, extra, organization_name, parent_name) group
GroupRows(y, e, o, p) ==
    {i \in DOMAIN df : /\ df[i].year = y /\ df[i].extra = e
                       /\ df[i].organization_name = o
                       /\ df[i].parent_name = p}

\* the rows of df that state the group's parent: same organization, year and
\* extra, and budget_type_name equal to the group's parent_name
TypedParents(y, e, o, p) ==
    {i \in DOMAIN df : /\ df[i].year = y /\ df[i].extra = e
                       /\ df[i].organization_name = o
                       /\ df[i].budget_type_name = p}

\* the groups of df: the keys of the rows whose parent_name is not missing
Groups ==
    {GroupKey(df[i]) : i \in {j \in DOMAIN df : df[j].parent_name # Null}}

\* the output rows of a group
OutRows(y, e, o, p) ==
    {r \in ret.value : /\ r.year = y /\ r.extra = e
                       /\ r.organization_name = o
                       /\ r.budget_type_name = p}

One == [kind |-> "num", milli |-> 1000]

\* C4 (as amended): an output row whose typed parent value equals the sum of
\* the values of its group's rows has gap 0, and double 1.0 when that value
\* is not zero (NaN when it is zero); and every such parent row of a group of
\* a non-root organization has its output row.
C4_ConsistentGroup ==
    ret.fn = "budget_gap" =>
        /\ \A r \in ret.value :
             LET G == GroupRows(r.year, r.extra, r.organization_name,
                                r.budget_type_name)
                 t == df[r.typed_row].value
             IN  t = SumOver(G) =>
                   /\ r.gap = 0
                   /\ t # 0 => r.double = One
                   /\ t = 0 => r.double = [kind |-> "nan"]
        /\ \A k \in Groups : k[3] # StateOrg =>
             \A i \in TypedParents(k[1], k[2], k[3], k[4]) :
                df[i].value = SumOver(GroupRows(k[1], k[2], k[3], k[4])) =>
                   \E r \in OutRows(k[1], k[2], k[3], k[4]) :
                      r.typed_row = i /\ r.gap = 0

\* C4 as claimed: gap 0 and double 1.0 for every such row, a sum of zero
\* included.
C4_Original ==
    ret.fn = "budget_gap" =>
        \A r \in ret.value :
           LET G == GroupRows(r.year, r.extra, r.organization_name,
                              r.budget_type_name)
           IN  df[r.typed_row].value = SumOver(G) =>
                  r.gap = 0 /\ r.double = One

C4_Witness ==
    /\ ret.fn = "budget_gap"
    /\ \E r \in ret.value :
         LET G == GroupRows(r.year, r.extra, r.organization_name,
                            r.budget_type_name)
         IN  /\ Cardinality(G) = 2
             /\ SumOver(G) = 200000
             /\ df[r.typed_row].value = 200000
             /\ r.gap = 0
             /\ r.double = One

\* C5: no row of budget_gap's result is a row of the state-aggregate
\* organization, and the rows the filter of line 189 removes are all rows of
\* that organization.
C5_RootExcluded ==
    ret.fn = "budget_gap" =>
        /\ \A r \in ret.value : r.organization_name # StateOrg
        /\ \A r \in ret.unfiltered :
             r \notin ret.filtered => r.organization_name = StateOrg
        /\ ret.filtered \subseteq ret.unfiltered
        /\ ret.value = drop_parent_name_agg(ret.filtered)

C5_Witness ==
    /\ ret.fn = "budget_gap"
    /\ \E r \in ret.unfiltered :
         /\ r.organization_name = StateOrg
         /\ r \notin ret.filtered
    /\ \A r \in ret.value : r.organization_name # StateOrg

\* C9 (as amended): a (year, extra, organization_name, parent_name) group of
\* a non-root organization yields one output row per row of the table that
\* has the same organization, year and extra and whose budget_type_name is
\* the group's parent_name (none when there is no such row); in each of them
\* value_agg is the sum of the group's values, value_typed is that parent
\* row's value, and gap is value_typed - value_agg rounded to 3 decimals.
\* Every output row is the row of such a group.
C9_RowPerTypedParent ==
    ret.fn = "budget_gap" =>
        /\ \A k \in Groups : k[3] # StateOrg =>
             LET out == OutRows(k[1], k[2], k[3], k[4])
                 T == TypedParents(k[1], k[2], k[3], k[4])
                 G == GroupRows(k[1], k[2], k[3], k[4])
             IN  /\ {r.typed_row : r \in out} = T
                 /\ Cardinality(out) = Cardinality(T)
                 /\ \A r \in out :
                      /\ r.value_agg = SumOver(G)
                      /\ r.value_typed = df[r.typed_row].value
                      /\ IsRounded(r.gap, r.value_typed - r.value_agg, 100)
        /\ \A r \in ret.value :
             <<r.year, r.extra, r.organization_name, r.budget_type_name>>
                \in Groups

\* C9 as claimed: at most one output row per group, one exactly when the
\* table has a row stating the group's parent, with gap = value_typed -
\* value_agg.
C9_Original ==
    ret.fn = "budget_gap" =>
        \A k \in Groups : k[3] # StateOrg =>
           LET out == OutRows(k[1], k[2], k[3], k[4])
               T == TypedParents(k[1], k[2], k[3], k[4])
               G == GroupRows(k[1], k[2], k[3], k[4])
           IN  /\ Cardinality(out) <= 1
               /\ Cardinality(out) = 1 <=> T # {}
               /\ \A r \in out :
                    /\ r.value_agg = SumOver(G)
                    /\ r.value_typed = df[r.typed_row].value
                    /\ r.gap = r.value_typed - r.value_agg

\* C9 as claimed, on the tables whose values have at most 3 decimals: it
\* fails on the number of rows alone.
C9_OriginalWholeMillis ==
    (\A i \in DOMAIN df : df[i].value % 100 = 0) => C9_Original

C9_Witness ==
    /\ ret.fn = "budget_gap"
    /\ \E k \in Groups :
         /\ k[3] # StateOrg
         /\ Cardinality(GroupRows(k[1], k[2], k[3], k[4])) = 2
         /\ Cardinality(TypedParents(k[1], k[2], k[3], k[4])) = 1
         /\ \E r \in OutRows(k[1], k[2], k[3], k[4]) :
              r.gap # 0 /\ r.gap # r.value_typed - r.value_agg

(***************************************************************************)
(* generate_csv and load_sheet                                              *)
(*                                                                          *)
(* saisie is the workbook: a sequence of sheets [name, rows], in the order  *)
(* read_excel(sheet_name=None) gives them.  A sheet has one column; a cell  *)
(* is a number, a text or empty.  generated maps a sheet name to the        *)
(* content of data/generated/<name>.csv: Absent, Empty (a file of zero      *)
(* bytes) or [lines |-> the text of each row after the header].             *)
(***************************************************************************)
Num(n) == [num |-> n]
Str(t) == [str |-> t]
NullCell == [null |-> TRUE]
Absent == [file |-> "absent"]
Empty == [file |-> "empty"]

\* the text to_csv writes for a number, and the number read_csv reads from it
NumText == <<"1", "2">>

CellText(c) == IF "num" \in DOMAIN c THEN NumText[c.num] ELSE c.str

\* DataFrame.dropna(how="all") on a frame of one column
dropna_all(rows) == SelectSeq(rows, LAMBDA c : c # NullCell)

\* lines 13-15: the file written for a sheet
to_csv(rows) ==
    [lines |-> [i \in DOMAIN dropna_all(rows) |-> CellText(dropna_all(rows)[i])]]

\* pd.read_csv: a column whose every text reads as a number becomes a column
\* of numbers, any other column stays text; no file and a file without a
\* header raise
read_csv(file) ==
    IF file = Absent THEN [error |-> "FileNotFoundError"]
    ELSE IF file = Empty THEN [error |-> "EmptyDataError"]
    ELSE LET t == file.lines
         IN  IF \A i \in DOMAIN t : t[i] \in Range(NumText)
             THEN [table |-> [i \in DOMAIN t |-> Num(IndexOf(NumText, t[i]))]]
             ELSE [table |-> [i \in DOMAIN t |-> Str(t[i])]]

\* what a failed to_csv can leave behind: the file as it was (the file could
\* not be opened), a file of zero bytes, or the header and the first rows
AfterFailedWrite(old, rows) ==
    {old, Empty} \cup
    {[lines |-> SubSeq(to_csv(rows).lines, 1, k)] :
        k \in 0..(Len(to_csv(rows).lines) - 1)}

on_write_error_Propagates(f) == [f EXCEPT !.status = "raised"]

\* lines 16-19: the exception is caught, the loop goes on
on_write_error(f) == f

load_sheet_cached_Regenerates(file) == FALSE

\* line 33: csv_sheet_path.exists()
load_sheet_cached(file) == file # Absent

(***************************************************************************)
(* Specification of the cache: load_sheet and generate_csv are called one   *)
(* after the other, MaxCalls times at most; generate_csv runs sheet by      *)
(* sheet, and the write of any sheet may fail.                              *)
(***************************************************************************)
MaxCalls == 2

RequestedNames == {"s1", "s2", "s3"}

\* the contents of sheet s1: numbers, a number stored as text, text, empty
\* rows
SheetRows ==
    {<<Num(1), NullCell, Num(2)>>, <<Str("1"), Num(2)>>,
     <<Str("a"), Num(1)>>, <<NullCell>>}

\* the cache files a run may start from: none, a file written from the
\* sheet as it is, or a file written from an earlier state of the workbook
StaleFile == [lines |-> <<"old">>]

InitCache ==
    /\ IdleBudget /\ IdleMerge
    /\ \E rows \in SheetRows :
         saisie = <<[name |-> "s1", rows |-> rows],
                    [name |-> "s2", rows |-> <<Str("a")>>]>>
    /\ \E f1 \in {Absent, StaleFile}, f2 \in {Absent, StaleFile} :
         generated = [n \in RequestedNames |->
                        IF n = "s1" THEN f1 ELSE IF n = "s2" THEN f2 ELSE Absent]
    /\ pc = "idle"
    /\ frame = NoCall
    /\ printed = <<>>
    /\ last = <<>>

NewRun(fn, sheet_name) ==
    [fn |-> fn, sheet_name |-> sheet_name, status |-> "running", i |-> 1,
     found |-> IF generated[sheet_name] = Absent THEN "absent" ELSE "present",
     runs |-> 1, before |-> generated, failed |-> {}, written |-> {},
     calls |-> 0]

Calls == IF frame = NoCall THEN 0 ELSE frame.calls

Completed(sheet_name, found, runs, before, result) ==
    [sheet_name |-> sheet_name, found |-> found, runs |-> runs,
     before |-> before, result |-> result]

\* the previous completed load_sheet call and the new one
Push(c) == IF last = <<>> THEN <<c>> ELSE <<last[Len(last)], c>>

\* lines 32-34: the file is there, it is read and returned
LoadSheetCached ==
    /\ pc = "idle"
    /\ Calls < MaxCalls
    /\ \E sheet_name \in RequestedNames :
         /\ load_sheet_cached(generated[sheet_name])
         /\ last' = Push(Completed(sheet_name, "present", 0, generated,
                                   read_csv(generated[sheet_name])))
         /\ frame' = [fn |-> "load_sheet", sheet_name |-> sheet_name,
                      status |-> "cached", calls |-> Calls + 1]
    /\ UNCHANGED <<saisie, generated, pc, printed, budgetVars, mergeVars>>

\* lines 35-36: the file is not there, generate_csv is entered
LoadSheetMissing ==
    /\ pc = "idle"
    /\ Calls < MaxCalls
    /\ \E sheet_name \in RequestedNames :
         /\ ~load_sheet_cached(generated[sheet_name])
         /\ frame' = [NewRun("load_sheet", sheet_name) EXCEPT !.calls = Calls + 1]
    /\ pc' = "loop"
    /\ printed' = <<>>
    /\ UNCHANGED <<saisie, generated, last, budgetVars, mergeVars>>

\* lines 7-10: generate_csv called by itself (sheet_name is not read)
GenerateCsv ==
    /\ pc = "idle"
    /\ Calls < MaxCalls
    /\ frame' = [NewRun("generate_csv", "s3") EXCEPT !.calls = Calls + 1]
    /\ pc' = "loop"
    /\ printed' = <<>>
    /\ last' = <<>>
    /\ UNCHANGED <<saisie, generated, budgetVars, mergeVars>>

\* lines 11-15: one turn of the loop, the write succeeds
WriteSheet ==
    /\ pc = "loop"
    /\ frame.i <= Len(saisie)
    /\ LET sheet == saisie[frame.i]
       IN  /\ generated' = [generated EXCEPT ![sheet.name] = to_csv(sheet.rows)]
           /\ frame' = [frame EXCEPT !.i = @ + 1,
                                     !.written = @ \cup {sheet.name}]
    /\ UNCHANGED <<saisie, pc, printed, last, budgetVars, mergeVars>>

\* lines 11-19: one turn of the loop, the write raises an Exception
WriteSheetFails ==
    /\ pc = "loop"
    /\ frame.i <= Len(saisie)
    /\ LET sheet == saisie[frame.i]
           f == on_write_error([frame EXCEPT !.failed = @ \cup {sheet.name}])
       IN  /\ \E file \in AfterFailedWrite(generated[sheet.name], sheet.rows) :
                generated' = [generated EXCEPT ![sheet.name] = file]
           /\ IF f.status = "raised"
              THEN /\ frame' = f
                   /\ pc' = "raised"
                   /\ printed' = printed
              ELSE /\ frame' = [f EXCEPT !.i = @ + 1]
                   /\ pc' = pc
                   /\ printed' = printed \o <<sheet.name, "e">>
    /\ UNCHANGED <<saisie, last, budgetVars, mergeVars>>

\* the loop is over and generate_csv returns; line 37: load_sheet reads the
\* file of its sheet
GenerateReturns ==
    /\ pc = "loop"
    /\ frame.i > Len(saisie)
    /\ pc' = "idle"
    /\ frame' = [frame EXCEPT !.status = "returned"]
    /\ last' = IF frame.fn = "load_sheet"
               THEN Push(Completed(frame.sheet_name, frame.found, frame.runs,
                                   frame.before,
                                   read_csv(generated[frame.sheet_name])))
               ELSE last
    /\ UNCHANGED <<saisie, generated, printed, budgetVars, mergeVars>>

NextCache ==
    \/ LoadSheetCached
    \/ LoadSheetMissing
    \/ GenerateCsv
    \/ WriteSheet
    \/ WriteSheetFails
    \/ GenerateReturns

SpecCache == InitCache /\ [][NextCache]_vars

SaisieNames == {saisie[i].name : i \in DOMAIN saisie}

\* C6: generate_csv never raises on a failed write; when it returns it has
\* visited every sheet, the file of every sheet whose write did not fail is
\* the one written from the sheet, and the name of every failed sheet has
\* been printed.
C6_PartialFailureTolerated ==
    /\ pc # "raised"
    /\ (pc = "idle" /\ frame # NoCall /\ frame.status = "returned") =>
         /\ frame.failed \cup frame.written = SaisieNames
         /\ frame.failed \cap frame.written = {}
         /\ \A i \in DOMAIN saisie :
              saisie[i].name \notin frame.failed =>
                 generated[saisie[i].name] = to_csv(saisie[i].rows)
         /\ Range(printed) \cap SaisieNames = frame.failed

C6_Witness ==
    /\ pc = "idle"
    /\ frame # NoCall
    /\ frame.status = "returned"
    /\ frame.failed = {"s1"}
    /\ frame.written = {"s2"}
    /\ frame.before["s2"] = Absent
    /\ generated["s2"] = [lines |-> <<"a">>]
    /\ printed = <<"s1", "e">>

Newest == last[Len(last)]

\* C7: of two successive load_sheet calls for the same sheet, the second
\* returns the table the first returned; a call that finds the file of its
\* sheet returns what read_csv reads from it, runs generate_csv no time and
\* leaves every file as it was; a call that does not find it runs
\* generate_csv once and then reads the file.
C7_CacheStable ==
    /\ (Len(last) = 2 /\ last[1].sheet_name = last[2].sheet_name
          /\ "table" \in DOMAIN last[1].result)
         => last[2].result = last[1].result
    /\ (pc = "idle" /\ last # <<>>) =>
         /\ Newest.found = "present" <=> Newest.before[Newest.sheet_name] # Absent
         /\ Newest.found = "present" =>
              /\ Newest.runs = 0
              /\ generated = Newest.before
              /\ Newest.result = read_csv(Newest.before[Newest.sheet_name])
         /\ Newest.found = "absent" =>
              /\ Newest.runs = 1
              /\ Newest.result = read_csv(generated[Newest.sheet_name])

C7_Witness ==
    /\ pc = "idle"
    /\ Len(last) = 2
    /\ last[1].sheet_name = "s1" /\ last[2].sheet_name = "s1"
    /\ last[1].found = "absent" /\ last[1].runs = 1
    /\ last[2].found = "present" /\ last[2].runs = 0
    /\ last[1].result = [table |-> <<Num(1), Num(2)>>]
    /\ last[2].result = last[1].result
    /\ saisie[1].rows = <<Str("1"), Num(2)>>

(***************************************************************************)
(* merge                                                                    *)
(*                                                                          *)
(* A table is [cols |-> the column names, rows |-> the rows], a row being   *)
(* the sequence of its cells in the order of cols.  A row of a merged table *)
(* is [h, v, cells]: h and v are the numbers of the hierarchy row and of    *)
(* the values row it was joined from.  pd.merge matches two missing keys    *)
(* with each other, as it matches two equal keys.                           *)
(***************************************************************************)
ColIdx(cols, c) == CHOOSE i \in DOMAIN cols : cols[i] = c

\* a column name both tables have, other than a key of the same name on both
\* sides: pd.merge gives it the suffixes
Overlaps(c, l, l_on, r, r_on) ==
    /\ c \in Range(l.cols)
    /\ c \in Range(r.cols)
    /\ ~(c = l_on /\ c = r_on)

\* the columns of the right table the join keeps: all but a key named as the
\* left key
RightKept(r, l_on, r_on) ==
    SelectSeq([i \in DOMAIN r.cols |-> i],
              LAMBDA i : ~(r.cols[i] = r_on /\ r_on = l_on))

JoinCols(l, l_on, r, r_on, suffixes) ==
    [i \in DOMAIN l.cols |->
        IF Overlaps(l.cols[i], l, l_on, r, r_on)
        THEN l.cols[i] \o suffixes[1] ELSE l.cols[i]]
    \o
    [n \in DOMAIN RightKept(r, l_on, r_on) |->
        LET c == r.cols[RightKept(r, l_on, r_on)[n]]
        IN  IF Overlaps(c, l, l_on, r, r_on) THEN c \o suffixes[2] ELSE c]

JoinRow(l, l_on, r, r_on, i, j) ==
    [h |-> i, v |-> j,
     cells |-> l.rows[i] \o
               [n \in DOMAIN RightKept(r, l_on, r_on) |->
                   r.rows[j][RightKept(r, l_on, r_on)[n]]]]

\* the right rows whose key equals the key of left row i, in order
Matches(l, l_on, r, r_on, i) ==
    SelectSeq([j \in DOMAIN r.rows |-> j],
              LAMBDA j : l.rows[i][ColIdx(l.cols, l_on)]
                           = r.rows[j][ColIdx(r.cols, r_on)])

RECURSIVE InnerRows(_, _, _, _, _)
InnerRows(l, l_on, r, r_on, i) ==
    IF i > Len(l.rows) THEN <<>>
    ELSE LET m == Matches(l, l_on, r, r_on, i)
         IN  [n \in DOMAIN m |-> JoinRow(l, l_on, r, r_on, i, m[n])]
             \o InnerRows(l, l_on, r, r_on, i + 1)

RECURSIVE LeftRows(_, _, _, _, _)
\* how="left": a left row without a match is kept, its right cells missing
LeftRows(l, l_on, r, r_on, i) ==
    IF i > Len(l.rows) THEN <<>>
    ELSE LET m == Matches(l, l_on, r, r_on, i)
         IN  (IF m = <<>>
              THEN <<[h |-> i, v |-> 0,
                      cells |-> l.rows[i] \o
                                [n \in DOMAIN RightKept(r, l_on, r_on) |-> NullCell]]>>
              ELSE [n \in DOMAIN m |-> JoinRow(l, l_on, r, r_on, i, m[n])])
             \o LeftRows(l, l_on, r, r_on, i + 1)

pd_merge_Left(l, l_on, r, r_on, suffixes) ==
    [cols |-> JoinCols(l, l_on, r, r_on, suffixes),
     rows |-> LeftRows(l, l_on, r, r_on, 1)]

\* lines 67-73: pd.merge, how="inner" by default
pd_merge(l, l_on, r, r_on, suffixes) ==
    [cols |-> JoinCols(l, l_on, r, r_on, suffixes),
     rows |-> InnerRows(l, l_on, r, r_on, 1)]

\* line 74: DataFrame.rename(columns=rename_cols); a name that is no column
\* is ignored, and the names are replaced all at once
rename(t, rename_cols) ==
    [cols |-> [i \in DOMAIN t.cols |->
                  IF t.cols[i] \in DOMAIN rename_cols
                  THEN rename_cols[t.cols[i]] ELSE t.cols[i]],
     rows |-> t.rows]

\* line 75: DataFrame.drop(columns=drop_cols) raises KeyError for a name that
\* is no column
drop_missing(t, drop_cols) ==
    {c \in Range(drop_cols) : c \notin Range(t.cols)}

drop(t, drop_cols) ==
    LET keep == SelectSeq([i \in DOMAIN t.cols |-> i],
                          LAMBDA i : t.cols[i] \notin Range(drop_cols))
    IN  [cols |-> [n \in DOMAIN keep |-> t.cols[keep[n]]],
         rows |-> [k \in DOMAIN t.rows |->
                     [t.rows[k] EXCEPT
                        !.cells = [n \in DOMAIN keep |-> t.rows[k].cells[keep[n]]]]]]

\* the transformers of the model: x + 1 and 2 * x (a missing cell stays
\* missing)
Transformer(f, c) ==
    IF c = NullCell THEN c
    ELSE IF f = "inc" THEN Num(c.num + 1)
    ELSE Num(2 * c.num)

\* line 79: Series.apply(transformer) on the column col_name, assigned back.
\* When two columns have that name, loc gives both and both are transformed
\* (the transformers of the model act on a column as they act on a cell).
apply_transformer(t, col_name, f) ==
    [cols |-> t.cols,
     rows |-> [k \in DOMAIN t.rows |->
                 [t.rows[k] EXCEPT
                    !.cells = [i \in DOMAIN t.cols |->
                                 IF t.cols[i] = col_name
                                 THEN Transformer(f, t.rows[k].cells[i])
                                 ELSE t.rows[k].cells[i]]]]]

RECURSIVE apply_list_Reversed(_, _, _)
apply_list_Reversed(t, col_name, transformer_list) ==
    IF transformer_list = <<>> THEN t
    ELSE apply_transformer(apply_list_Reversed(t, col_name, Tail(transformer_list)),
                           col_name, Head(transformer_list))

RECURSIVE apply_list(_, _, _)
\* line 78: the transformers of one column, left to right
apply_list(t, col_name, transformer_list) ==
    IF transformer_list = <<>> THEN t
    ELSE apply_list(apply_transformer(t, col_name, Head(transformer_list)),
                    col_name, Tail(transformer_list))

Outcome(status, stage, missing, t) ==
    [status |-> status, stage |-> stage, missing |-> missing,
     cols |-> t.cols, rows |-> t.rows]

RECURSIVE apply_transformers(_, _)
\* lines 77-79: the columns in the order of the dict; merged.loc[:, col_name]
\* raises KeyError when col_name is no column
apply_transformers(t, transformers) ==
    IF transformers = <<>> THEN Outcome("ok", "done", "", t)
    ELSE LET col_name == Head(transformers)[1]
             transformer_list == Head(transformers)[2]
         IN  IF transformer_list # <<>> /\ col_name \notin Range(t.cols)
             THEN Outcome("KeyError", "transform", col_name, t)
             ELSE apply_transformers(apply_list(t, col_name, transformer_list),
                                     Tail(transformers))

\* lines 65-80
merge(h, h_on, v, v_on, suffixes, transformers, drop_cols, rename_cols) ==
    LET joined == pd_merge(h, h_on, v, v_on, suffixes)
        renamed == rename(joined, rename_cols)
    IN  IF drop_missing(renamed, drop_cols) # {}
        THEN Outcome("KeyError", "drop",
                     CHOOSE c \in drop_missing(renamed, drop_cols) : TRUE, renamed)
        ELSE apply_transformers(drop(renamed, drop_cols), transformers)

(***************************************************************************)
(* Specification of merge.  The hierarchy table has the columns k and a,    *)
(* the values table a key column (j, or k as in the hierarchy table) and a  *)
(* column a; both are built row by row, then merge is called on k and the   *)
(* key of the values table, with the default suffixes.                      *)
(***************************************************************************)
MaxMergeRows == 2

MergeKeys == {Num(1), Num(2), NullCell}

RenameChoices ==
    {[c \in {} |-> ""],
     [c \in {"a_y"} |-> "v"],
     [c \in {"a_x", "a_y"} |-> IF c = "a_x" THEN "a_y" ELSE "a_x"],
     [c \in {"a_x"} |-> "a_y"],
     [c \in {"zz"} |-> "v"]}

DropChoices == {<<>>, <<"v">>, <<"a_y">>, <<"a_x">>}

TransformerChoices ==
    {<<>>,
     << <<"v", <<"inc", "dbl">>>> >>,
     << <<"a_y", <<"inc", "dbl">>>> >>,
     << <<"a_x", <<"dbl">>>>, <<"v", <<"dbl", "inc">>>> >>,
     << <<"a_y", <<>>>> >>}

InitMerge ==
    /\ IdleBudget /\ IdleCache
    /\ hierarchy_df = [cols |-> <<"k", "a">>, rows |-> <<>>]
    /\ \E key \in {"j", "k"} : values_df = [cols |-> <<key, "a">>, rows |-> <<>>]
    /\ margs = NoCall
    /\ merged = NoCall

MergeAddHierarchyRow ==
    /\ merged = NoCall
    /\ Len(hierarchy_df.rows) < MaxMergeRows
    /\ \E key \in MergeKeys :
         hierarchy_df' = [hierarchy_df EXCEPT !.rows = Append(@, <<key, Num(1)>>)]
    /\ UNCHANGED <<values_df, margs, merged, budgetVars, cacheVars>>

MergeAddValuesRow ==
    /\ merged = NoCall
    /\ Len(values_df.rows) < MaxMergeRows
    /\ \E key \in MergeKeys :
         values_df' = [values_df EXCEPT !.rows = Append(@, <<key, Num(2)>>)]
    /\ UNCHANGED <<hierarchy_df, margs, merged, budgetVars, cacheVars>>

Merge ==
    /\ merged = NoCall
    /\ \E rename_cols \in RenameChoices, drop_cols \in DropChoices,
          transformers \in TransformerChoices :
         /\ margs' = [fn |-> "merge",
                      hierarchy_df_on |-> "k",
                      values_df_on |-> values_df.cols[1],
                      suffixes |-> <<"_x", "_y">>,
                      transformers |-> transformers,
                      drop_cols |-> drop_cols,
                      rename_cols |-> rename_cols]
         /\ merged' = [fn |-> "merge",
                       joined |-> pd_merge(hierarchy_df, "k", values_df,
                                           values_df.cols[1], <<"_x", "_y">>),
                       out |-> merge(hierarchy_df, "k", values_df,
                                     values_df.cols[1], <<"_x", "_y">>,
                                     transformers, drop_cols, rename_cols)]
    /\ UNCHANGED <<hierarchy_df, values_df, budgetVars, cacheVars>>

NextMerge == MergeAddHierarchyRow \/ MergeAddValuesRow \/ Merge

SpecMerge == InitMerge /\ [][NextMerge]_vars

\* the pairs (hierarchy row, values row) with equal keys
KeyPairs ==
    {p \in (DOMAIN hierarchy_df.rows) \X (DOMAIN values_df.rows) :
        hierarchy_df.rows[p[1]][1] = values_df.rows[p[2]][1]}

Provenance(rows) == [n \in DOMAIN rows |-> <<rows[n].h, rows[n].v>>]

\* C1: the join has one row for exactly each pair (h, v) of a hierarchy row
\* and a values row with equal keys, made of the cells of both; a row of
\* either table without a match is in no row of the result; rename, drop
\* and the transformers neither add nor remove rows.
C1_InnerJoin ==
    merged.fn = "merge" =>
        LET rows == merged.joined.rows
        IN  /\ Range(Provenance(rows)) = KeyPairs
            /\ Len(rows) = Cardinality(KeyPairs)
            /\ \A n \in DOMAIN rows :
                 LET hr == hierarchy_df.rows[rows[n].h]
                     vr == values_df.rows[rows[n].v]
                 IN  rows[n].cells =
                       IF values_df.cols[1] = "k"
                       THEN <<hr[1], hr[2], vr[2]>>
                       ELSE <<hr[1], hr[2], vr[1], vr[2]>>
            /\ \A i \in DOMAIN hierarchy_df.rows :
                 (~ \E j \in DOMAIN values_df.rows : <<i, j>> \in KeyPairs)
                    => ~ \E n \in DOMAIN rows : rows[n].h = i
            /\ \A j \in DOMAIN values_df.rows :
                 (~ \E i \in DOMAIN hierarchy_df.rows : <<i, j>> \in KeyPairs)
                    => ~ \E n \in DOMAIN rows : rows[n].v = j
            /\ merged.out.status = "ok" =>
                 Provenance(merged.out.rows) = Provenance(rows)

C1_Witness ==
    /\ merged.fn = "merge"
    /\ Len(hierarchy_df.rows) = 2
    /\ Len(values_df.rows) = 2
    /\ KeyPairs = {<<1, 1>>}
    /\ Len(merged.joined.rows) = 1
    /\ merged.joined.rows[1].cells = <<Num(1), Num(1), Num(1), Num(2)>>
    /\ merged.out.status = "ok"

\* the column names after the renaming of line 74
Renamed ==
    [i \in DOMAIN merged.joined.cols |->
        IF merged.joined.cols[i] \in DOMAIN margs.rename_cols
        THEN margs.rename_cols[merged.joined.cols[i]]
        ELSE merged.joined.cols[i]]

\* the transformers given for a column (none: the empty list)
ListFor(c) ==
    IF \E n \in DOMAIN margs.transformers : margs.transformers[n][1] = c
    THEN margs.transformers[CHOOSE n \in DOMAIN margs.transformers :
                               margs.transformers[n][1] = c][2]
    ELSE <<>>

RECURSIVE LeftToRight(_, _)
\* the transformers of list applied to cell c, each on the output of the one
\* before
LeftToRight(list, c) ==
    IF list = <<>> THEN c
    ELSE LeftToRight(Tail(list), Transformer(Head(list), c))

\* old is renamed to another name
IsRenamed(old) ==
    /\ old \in DOMAIN margs.rename_cols
    /\ old \in Range(merged.joined.cols)
    /\ margs.rename_cols[old] # old

\* old is renamed to another name, no column has the name old after the
\* renaming, and one column only has the new name
IsRenamedApart(old) ==
    /\ IsRenamed(old)
    /\ old \notin Range(Renamed)
    /\ Cardinality({i \in DOMAIN Renamed : Renamed[i] = margs.rename_cols[old]}) = 1

FailsOnOldName(old) ==
    /\ old \in Range(margs.drop_cols) =>
         merged.out.status = "KeyError" /\ merged.out.stage = "drop"
    /\ ListFor(old) # <<>> => merged.out.status = "KeyError"

ActsOnNewName(old) ==
    LET new == margs.rename_cols[old]
        out == merged.out
    IN  /\ out.status = "KeyError" /\ out.stage = "drop" => out.missing # new
        /\ (new \notin Range(margs.drop_cols)
              /\ out.status = "KeyError" /\ out.stage = "transform")
             => out.missing # new
        /\ (out.status = "ok" /\ new \in Range(margs.drop_cols))
             => new \notin Range(out.cols)
        /\ (out.status = "ok" /\ new \notin Range(margs.drop_cols)) =>
             /\ new \in Range(out.cols)
             /\ \A n \in DOMAIN out.rows :
                  out.rows[n].cells[ColIdx(out.cols, new)] =
                     LeftToRight(ListFor(new),
                        merged.joined.rows[n].cells[ColIdx(merged.joined.cols, old)])

\* C2 (as amended): merge joins, then renames, then drops, then transforms:
\* for a column old renamed to new, when no column is renamed to old and new
\* is the name of no other column, a drop or a transformer keyed by new is
\* never refused for a missing column, the drop removes the renamed column
\* and the transformers act on it, left to right, each on the output of the
\* one before; a drop or a (non-empty) list of transformers keyed by old
\* makes the call fail with KeyError.
C2_JoinRenameDropTransform ==
    merged.fn = "merge" =>
        \A old \in DOMAIN margs.rename_cols :
           IsRenamedApart(old) => FailsOnOldName(old) /\ ActsOnNewName(old)

\* C2 as claimed: for any mapping of old to new.
C2_Original ==
    merged.fn = "merge" =>
        \A old \in DOMAIN margs.rename_cols :
           IsRenamed(old) => FailsOnOldName(old)

C2_Witness ==
    /\ merged.fn = "merge"
    /\ IsRenamedApart("a_y")
    /\ margs.transformers = << <<"v", <<"inc", "dbl">>>> >>
    /\ merged.out.status = "ok"
    /\ Len(merged.out.rows) = 1
    /\ merged.out.rows[1].cells[ColIdx(merged.out.cols, "v")] = Num(6)

C2_WitnessOldFails ==
    /\ merged.fn = "merge"
    /\ IsRenamedApart("a_y")
    /\ ListFor("a_y") = <<"inc", "dbl">>
    /\ merged.joined.rows # <<>>
    /\ merged.out.status = "KeyError"
    /\ merged.out.stage = "transform"
    /\ merged.out.missing = "a_y"

====
